---- MODULE Spec2Model ----
(***************************************************************************)
(* repoman: the vault / pristine / clone lifecycle on the file system.     *)
(*                                                                         *)
(* The state is the content of the three directories the managers work on  *)
(* (vault path, pristines path, clones path) and the remotes.  The time a   *)
(* call reads from the clock is an input of the call; the time stamps the  *)
(* records carry (added_on, created_on, last_updated, created) are written *)
(* and never read by the managers, and are left out of the records; the    *)
(* time of last_sync is kept.  The commits of a remote's HEAD branch are   *)
(* numbered in the order they were pushed.                                 *)
(* A Go string is a sequence of tokens: every token is a run of characters *)
(* that holds none of the separators the code looks for, and the           *)
(* separators ("/", ":"), the markers ("git@", "github.com") and the       *)
(* suffix ".git" are tokens of their own.  The empty string is << >>.      *)
(***************************************************************************)
EXTENDS Integers, Sequences, FiniteSets, TLC

\* ------------------------------------------------------------------ bounds
\* time.Now(), to the second, reads as one of 1..MaxStamp.
MaxStamp == 1
\* At most MaxRecords clone records in all metadata.json together.
MaxRecords == 2
\* The commits of a remote's HEAD branch are 1..MaxTip, in the order they were pushed.
MaxTip == 2

\* ----------------------------------------------------------------- strings
HasPrefix(s, p) == Len(s) >= Len(p) /\ SubSeq(s, 1, Len(p)) = p

HasSuffix(s, p) == Len(s) >= Len(p) /\ SubSeq(s, Len(s) - Len(p) + 1, Len(s)) = p

TrimSuffix(s, p) == IF HasSuffix(s, p) THEN SubSeq(s, 1, Len(s) - Len(p)) ELSE s

\* strings.Contains for a substring that is one token
Contains(s, tok) == \E i \in 1..Len(s) : s[i] = tok

\* strings.Split(s, sep) for a one-token separator: the parts, in order
RECURSIVE Split(_, _)
Split(s, sep) ==
    IF ~Contains(s, sep) THEN << s >>
    ELSE LET i == CHOOSE k \in 1..Len(s) : s[k] = sep /\ \A j \in 1..(k - 1) : s[j] # sep
         IN  << SubSeq(s, 1, i - 1) >> \o Split(SubSeq(s, i + 1, Len(s)), sep)

\* the path without its trailing slashes
RECURSIVE StripSlashes(_)
StripSlashes(p) ==
    IF p # << >> /\ p[Len(p)] = "/" THEN StripSlashes(SubSeq(p, 1, Len(p) - 1)) ELSE p

\* filepath.Base: the last element of the path; "." for "", "/" for slashes only
Base(p) ==
    IF p = << >> THEN << "." >>
    ELSE LET q == StripSlashes(p)
         IN  IF q = << >> THEN << "/" >>
             ELSE LET parts == Split(q, "/") IN parts[Len(parts)]

\* filepath.Abs of an absolute path: the path, cleaned of trailing slashes
Abs(p) == IF StripSlashes(p) = << >> THEN << "/" >> ELSE StripSlashes(p)

\* ------------------------------------------------------------------ inputs
HttpPrefix == << "http", ":", "/", "/" >>
HttpsPrefix == << "https", ":", "/", "/" >>
GitAtPrefix == << "git@" >>
DotGit == << ".git" >>

UrlHttpsRepo == HttpsPrefix \o << "github.com", "/", "user", "/", "repo", ".git" >>
UrlSshRepo == << "git@", "github.com", ":", "user", "/", "repo", ".git" >>
UrlHttpsLib == HttpsPrefix \o << "example.com", "/", "lib", ".git" >>
UrlNoDotGit == HttpsPrefix \o << "github.com", "/", "user", "/", "repo" >>
UrlNoPath == << "git@", "github.com", ":", "repo", ".git" >>
PathRepo == << "/", "home", "/", "repo", "/" >>
PathMissing == << "/", "tmp", "/", "lib" >>

\* the local directories that exist and hold a .git directory
LocalGitDirs == { << "/", "home", "/", "repo" >> }

UrlSshLib == << "git@", "example.com", ":", "org", "/", "team", "/", "lib", ".git" >>
UrlHttpDeep == HttpPrefix \o << "example.com", "/", "org", "/", "team", "/", "repo", ".git" >>
\* the .git directory of a working tree, served over https
UrlDotGitDir == HttpsPrefix \o << "example.com", "/", "lib", "/", ".git" >>
\* a URL whose path is .git alone, on the host "lib"
UrlHostOnly == HttpsPrefix \o << "lib", "/", ".git" >>

\* what the user may hand to `repoman add`
AddInputs == { UrlHttpsRepo, UrlHttpsLib, UrlNoDotGit, UrlNoPath }

Ok(v) == [ok |-> TRUE, val |-> v]
Err(e) == [ok |-> FALSE, val |-> e]

IsURL(s) == HasPrefix(s, HttpPrefix) \/ HasPrefix(s, HttpsPrefix) \/ HasPrefix(s, GitAtPrefix)

\* the pattern ^(https?://|git@).*\.git$
validateURL(url) ==
    IF IsURL(url) /\ HasSuffix(url, DotGit) THEN Ok(url) ELSE Err("invalid git URL format")

validateLocalPath(path) ==
    IF Abs(path) \in LocalGitDirs THEN Ok(Abs(path)) ELSE Err("path does not exist")

validateURLOrPath(urlOrPath) ==
    IF urlOrPath = << >> THEN Err("URL or path cannot be empty")
    ELSE IF IsURL(urlOrPath) THEN validateURL(urlOrPath)
    ELSE validateLocalPath(urlOrPath)

extractNameFromURL(url0) ==
    LET url == TrimSuffix(url0, DotGit)
        name == IF Contains(url, "github.com")
                THEN LET parts == Split(url, "/")
                     IN  IF Len(parts) >= 2 THEN parts[Len(parts)] ELSE << >>
                ELSE IF Contains(url, "git@")
                THEN LET parts == Split(url, ":")
                     IN  IF Len(parts) >= 2 THEN Base(parts[Len(parts)]) ELSE << >>
                ELSE Base(url)
    IN  IF name = << >> THEN Err("could not extract repository name") ELSE Ok(name)

extractRepoName(urlOrPath) ==
    IF IsURL(urlOrPath) THEN extractNameFromURL(urlOrPath) ELSE Ok(Base(urlOrPath))

\* the name Add derives from an input, << >> when Add rejects the input first
DerivedName(in) ==
    LET v == validateURLOrPath(in)
    IN  IF ~v.ok THEN << >>
        ELSE LET n == extractRepoName(v.val) IN IF n.ok THEN n.val ELSE << >>

\* the URL Add stores for an input it accepts
StoredURL(in) == validateURLOrPath(in).val

RepoNames == { DerivedName(in) : in \in AddInputs } \ { << >> }
ValidURLs == { StoredURL(in) : in \in { i \in AddInputs : DerivedName(i) # << >> } }

AllNames == RepoNames

\* more of what the user may hand to `repoman add`: URLs of both schemes, with and
\* without github.com, of several path depths, and local paths; all with a name of
\* AllNames or none
NameInputs ==
    AddInputs \cup { UrlSshRepo, UrlSshLib, UrlHttpDeep, UrlDotGitDir, UrlHostOnly, PathRepo,
                     PathMissing }

\* os.ReadDir lists the entries sorted by file name
SortedNames == << << "lib" >>, << "repo" >> >>

\* ------------------------------------------------------------------- state
VARIABLES
    vaultExists,  \* whether <vault>/vault.json exists
    vault,        \* the entries of vault.json, in file order
    meta,         \* <vault>/<name>/metadata.json of every name
    pristine,     \* <pristines>/<name>: dir is "absent", "empty" (a directory that holds no
                  \* repository) or "repo" (a repository, with its HEAD branch and tip;
                  \* base: the commit of the depth-1 clone, the oldest the store holds;
                  \* origin: the URL of its remote)
    cloneDirs,    \* the names of the directories under the clones root
    remote,       \* every remote's HEAD branch and its tip; stale: the commit of the
                  \* remote's other branch, StaleBranch, 0 when there is none
    last,         \* the last call: operation, arguments, returned error
    life,         \* history of the name's pristine: "inited" (Init succeeded and Destroy has
                  \* not removed the pristine since), "destroyed" (Destroy removed it and
                  \* Init was not called since), "none" otherwise
    addedOk,      \* history: the URL of the Add of the name that returned success
    procs,        \* every process: Idle, or the call it is in and what the call holds in
                  \* memory (a call that is written as one step is never seen here)
    aliases,      \* the alias table of the vault: records of an alias and the name it is for
    clock         \* the time of day, in the unit of the last_sync stamps

vars ==
    << vaultExists, vault, meta, pristine, cloneDirs, remote, last, life, addedOk, procs,
       aliases, clock >>

\* what a call that is written as one step leaves alone, and what the calls of the
\* commands of main leave alone
solo == << procs, aliases, clock >>
apart == << aliases, clock >>

\* the processes that may run repoman at the same time
Procs == { 1, 2 }

\* a process that is in no call
Idle == [op |-> "idle"]

\* the zero value of SyncInfo
NoSync == [time |-> 0, kind |-> ""]

\* no metadata.json
NoMeta ==
    [exists |-> FALSE, url |-> << >>, defaultBranch |-> "", hash |-> 0, clones |-> << >>,
     lastSync |-> NoSync]

NoURL == << "-" >>

\* no directory under the pristines root, and a directory without a repository
NoPristine == [dir |-> "absent", branch |-> "", tip |-> 0, base |-> 0, origin |-> << >>]
EmptyPristine == [dir |-> "empty", branch |-> "", tip |-> 0, base |-> 0, origin |-> << >>]

\* the record of a call: op on repository name (<< >>: on none) returned res ("ok": a
\* nil error); clone: the name Clone gave the clone, the target of Destroy; kind: what
\* Destroy found its target to be; warn: a warning was printed; time: the time Sync read
\* from the clock
NoCall ==
    [op |-> "none", name |-> << >>, clone |-> << >>, res |-> "", kind |-> "", warn |-> FALSE,
     time |-> 0]

Call(op, name, res) ==
    [op |-> op, name |-> name, clone |-> << >>, res |-> res, kind |-> "", warn |-> FALSE,
     time |-> 0]

Init ==
    /\ vaultExists = FALSE
    /\ vault = << >>
    /\ meta = [n \in AllNames |-> NoMeta]
    /\ pristine = [n \in AllNames |-> NoPristine]
    /\ cloneDirs = {}
    /\ remote = [u \in ValidURLs |->
                    [branch |-> IF Contains(u, "github.com") THEN "main" ELSE "trunk",
                     tip |-> 1, stale |-> 0]]
    /\ last = NoCall
    /\ life = [n \in AllNames |-> "none"]
    /\ addedOk = [n \in AllNames |-> NoURL]
    /\ procs = [p \in Procs |-> Idle]
    /\ aliases = {}
    /\ clock = 1

\* ------------------------------------------------------------------- vault
\* variant of loadVault: the file is not read
loadVaultIgnoresFile == << >>

\* a missing vault.json reads as the empty vault
loadVault == IF vaultExists THEN vault ELSE << >>

\* variant of repoExists: no name is found
repoExistsNever(entries, name) == FALSE

repoExists(entries, name) == \E i \in 1..Len(entries) : entries[i].name = name

\* the metadata.json createMetadata writes
createMetadata(url) ==
    [exists |-> TRUE, url |-> url, defaultBranch |-> "main", hash |-> 0, clones |-> << >>,
     lastSync |-> NoSync]

\* Get: the first entry of the index with the name
Get(name) ==
    LET entries == loadVault
    IN  IF \E i \in 1..Len(entries) : entries[i].name = name
        THEN Ok(entries[CHOOSE i \in 1..Len(entries) :
                            /\ entries[i].name = name
                            /\ \A j \in 1..(i - 1) : entries[j].name # name])
        ELSE Err("not found")

\* The step of a call that fails for a reason outside the program (the disk, the
\* network), "none" when every step succeeds; a call returns at its first error.
AddFaults == { "none", "save", "metadata" }
InitFaults == { "none", "mkdir", "clone", "info", "metadata" }
CloneFaults == { "none", "mkdir", "clone", "metadata" }
CleanupFaults == { "none", "read" }
\* a Clone that is killed once it has made the clone directory
CloneCrash == { "crash" }
DestroyFaults == { "none", "remove", "read", "metadata" }

\* Add(urlOrPath); fault: the write of vault.json or of metadata.json fails
Add(in, fault) ==
    LET saveOk == fault # "save"
        metaOk == fault # "metadata"
        v == validateURLOrPath(in)
        n == extractRepoName(v.val)
        entries == loadVault
        fail(name, res) ==
            /\ last' = Call("Add", name, res)
            /\ UNCHANGED << vaultExists, vault, meta, addedOk >>
    IN  /\ UNCHANGED << pristine, cloneDirs, remote, life >>
        /\ IF ~v.ok THEN fail(<< >>, "validation_failed")
           ELSE IF ~n.ok THEN fail(<< >>, "name_failed")
           ELSE IF repoExists(entries, n.val) THEN fail(n.val, "already_exists")
           ELSE IF ~saveOk THEN fail(n.val, "save_failed")
           ELSE /\ vault' = Append(entries, [name |-> n.val, url |-> v.val])
                /\ vaultExists' = TRUE
                /\ IF ~metaOk
                   THEN /\ last' = Call("Add", n.val, "metadata_failed")
                        /\ UNCHANGED << meta, addedOk >>
                   ELSE /\ meta' = [meta EXCEPT ![n.val] = createMetadata(v.val)]
                        /\ addedOk' = [addedOk EXCEPT ![n.val] = v.val]
                        /\ last' = Call("Add", n.val, "ok")

\* The working directories `repoman add` may be run in without an argument: whether
\* .git exists, the remotes of the repository (name and first URL), the remote the
\* current branch tracks and the one of remote.pushDefault ("": none).
WdNoGit == [git |-> FALSE, remotes |-> {}, tracked |-> "", pushDefault |-> ""]
WdNoRemote == [git |-> TRUE, remotes |-> {}, tracked |-> "", pushDefault |-> ""]
WdOrigin ==
    [git |-> TRUE, remotes |-> { [name |-> "origin", url |-> UrlHttpsRepo] },
     tracked |-> "origin", pushDefault |-> ""]
WdUpstreamOnly ==
    [git |-> TRUE, remotes |-> { [name |-> "upstream", url |-> UrlHttpsLib] },
     tracked |-> "", pushDefault |-> ""]
WdTracksFork ==
    [git |-> TRUE,
     remotes |-> { [name |-> "origin", url |-> UrlHttpsRepo],
                   [name |-> "fork", url |-> UrlHttpsLib] },
     tracked |-> "fork", pushDefault |-> ""]
WdPushDefault ==
    [git |-> TRUE,
     remotes |-> { [name |-> "origin", url |-> UrlHttpsLib],
                   [name |-> "mirror", url |-> UrlHttpsRepo] },
     tracked |-> "", pushDefault |-> "mirror"]

WorkDirs == { WdNoGit, WdNoRemote, WdOrigin, WdUpstreamOnly, WdTracksFork, WdPushDefault }

\* the first URL of the remote "origin" of the repository in the working directory
getOriginRemote(wd) ==
    IF \E r \in wd.remotes : r.name = "origin"
    THEN Ok((CHOOSE r \in wd.remotes : r.name = "origin").url)
    ELSE Err("no origin remote found")

\* AddFromCurrentDir() in the working directory wd; fault: as for Add
AddFromCurrentDir(wd, fault) ==
    LET url == getOriginRemote(wd)
        fail(res) ==
            /\ last' = Call("AddFromCurrentDir", << >>, res)
            /\ UNCHANGED << vaultExists, vault, meta, pristine, cloneDirs, remote, life,
                            addedOk >>
    IN  IF ~wd.git THEN fail("not_a_repository")
        ELSE IF ~url.ok THEN fail("no_origin")
        ELSE Add(url.val, fault)

\* ---------------------------------------------------------------- pristine
\* variant of loadRepoFromVault: a name the index does not hold is taken for a repository
loadRepoFromVaultAny(vaultName) == Ok([name |-> vaultName, url |-> UrlHttpsRepo])

loadRepoFromVault(vaultName) ==
    IF ~vaultExists THEN Err("failed to read vault file")
    ELSE IF \E i \in 1..Len(vault) : vault[i].name = vaultName
    THEN Ok(vault[CHOOSE i \in 1..Len(vault) :
                      /\ vault[i].name = vaultName
                      /\ \A j \in 1..(i - 1) : vault[j].name # vaultName])
    ELSE Err("not found")

\* what git.PlainClone leaves in the directory cloneAsReference made, cloning url
cloneAsReference(url, cloneOk) ==
    IF cloneOk
    THEN [dir |-> "repo", branch |-> remote[url].branch, tip |-> remote[url].tip,
          base |-> remote[url].tip, origin |-> url]
    ELSE EmptyPristine

\* HEAD's branch and commit of the repository in the directory
extractRepoInfo(p) == [DefaultBranch |-> p.branch, CurrentBranchHash |-> p.tip]

\* variant of updateMetadata: last_sync is left as it was
updateMetadataKeepsSync(m, info, now) ==
    [m EXCEPT !.defaultBranch = info.DefaultBranch,
              !.hash = info.CurrentBranchHash]

\* the metadata.json pristine's updateMetadata writes
updateMetadata(m, info, now) ==
    [m EXCEPT !.defaultBranch = info.DefaultBranch,
              !.hash = info.CurrentBranchHash,
              !.lastSync = [time |-> now, kind |-> "manual"]]

\* Init(vaultName); fault: os.MkdirAll, git.PlainClone, extractRepoInfo or the write of
\* metadata.json fails
PristineInit(vaultName, fault) ==
    LET mkdirOk == fault # "mkdir"
        cloneOk == fault # "clone"
        infoOk == fault # "info"
        metaOk == fault # "metadata"
        repo == loadRepoFromVault(vaultName)
        cloned == cloneAsReference(repo.val.url, cloneOk)
        call(res) == Call("Init", vaultName, res)
        \* the history after an Init that did not succeed
        called == [life EXCEPT ![vaultName] = IF @ = "destroyed" THEN "none" ELSE @]
    IN  /\ UNCHANGED << vaultExists, vault, cloneDirs, remote, addedOk >>
        /\ IF ~repo.ok
           THEN /\ last' = call(IF vaultExists THEN "not_found" ELSE "vault_unreadable")
                /\ /\ life' = called
                /\ UNCHANGED << meta, pristine >>
           ELSE IF pristine[vaultName].dir # "absent"
           THEN /\ last' = call("already_exists")
                /\ /\ life' = called
                /\ UNCHANGED << meta, pristine >>
           ELSE IF ~mkdirOk
           THEN /\ last' = call("mkdir_failed")
                /\ /\ life' = called
                /\ UNCHANGED << meta, pristine >>
           ELSE /\ pristine' = [pristine EXCEPT ![vaultName] = cloned]
                /\ IF ~cloneOk
                   THEN /\ last' = call("clone_failed")
                        /\ life' = called
                        /\ UNCHANGED meta
                   ELSE IF ~infoOk
                   THEN /\ last' = call("info_failed")
                        /\ life' = called
                        /\ UNCHANGED meta
                   ELSE IF ~meta[vaultName].exists \/ ~metaOk
                   THEN /\ last' = call("metadata_failed")
                        /\ life' = called
                        /\ UNCHANGED meta
                   ELSE /\ \E now \in 1..MaxStamp :
                             meta' = [meta EXCEPT ![vaultName] =
                                 updateMetadata(meta[vaultName], extractRepoInfo(cloned), now)]
                        /\ life' = [life EXCEPT ![vaultName] = "inited"]
                        /\ last' = call("ok")

\* the errors Init returns after cloneAsReference has made the pristine directory
InitLateErrors == { "clone_failed", "info_failed", "metadata_failed" }

\* -------------------------------------------------------------------- sync
\* the time a Sync reads from the clock: it may run a second later than any Init
SyncStamps == 1..(MaxStamp + 1)

SyncFaults == { "none", "pull", "reset", "info", "metadata" }

\* the URL of the remote "origin" of the pristine: the URL Init cloned
Origin(vaultName) == pristine[vaultName].origin

\* the name of the branch a remote may hold beside its HEAD branch
StaleBranch(url) == IF remote[url].branch = "main" THEN "master" ELSE "main"

\* origin.List: the branches of the remote, each with its commit
ListBranches(url) ==
    { [name |-> remote[url].branch, hash |-> remote[url].tip] }
        \cup { [name |-> StaleBranch(url), hash |-> remote[url].stale] :
                   x \in { y \in { 0 } : remote[url].stale # 0 } }

\* the commits hardResetToOrigin may take for defaultBranchRef: the first branch of
\* origin.List named main or master, and origin.List fixes no order of the branches
DefaultBranchRefs(url) ==
    { r.hash : r \in { b \in ListBranches(url) : b.name = "main" \/ b.name = "master" } }

\* variant of SyncPristineMissing: the directory is not looked for
SyncPristineMissingNever(vaultName) == FALSE

\* os.Stat of the pristine directory reports that it does not exist
SyncPristineMissing(vaultName) == pristine[vaultName].dir = "absent"

\* worktree.Pull: the HEAD branch of the pristine moves forward to the tip of the
\* remote's HEAD (already up to date is no error)
Pull(p, url) == [p EXCEPT !.tip = remote[url].tip]

\* worktree.Reset, hard, to a commit the store holds
Reset(p, commit) == [p EXCEPT !.tip = commit]

\* Sync(vaultName) at time now; fault: worktree.Pull, origin.List, extractRepoInfo or
\* the write of metadata.json fails
Sync(vaultName, now, fault) ==
    LET p == pristine[vaultName]
        url == Origin(vaultName)
        pulled == Pull(p, url)
        call(res) == [Call("Sync", vaultName, res) EXCEPT !.time = now]
        fail(res) == /\ last' = call(res)
                     /\ UNCHANGED meta
    IN  /\ UNCHANGED << vaultExists, vault, cloneDirs, remote, life, addedOk >>
        /\ IF SyncPristineMissing(vaultName)
           THEN fail("does_not_exist") /\ UNCHANGED pristine
           ELSE IF p.dir # "repo"
           THEN fail("open_failed") /\ UNCHANGED pristine
           ELSE IF fault = "pull"
           THEN fail("pull_failed") /\ UNCHANGED pristine
           ELSE IF fault = "reset"
           THEN fail("reset_failed") /\ pristine' = [pristine EXCEPT ![vaultName] = pulled]
           ELSE IF DefaultBranchRefs(url) = {}
           THEN /\ fail("no_default_branch")
                /\ pristine' = [pristine EXCEPT ![vaultName] = pulled]
           ELSE \E commit \in DefaultBranchRefs(url) :
                  IF commit < p.base
                  THEN /\ fail("reset_failed")
                       /\ pristine' = [pristine EXCEPT ![vaultName] = pulled]
                  ELSE /\ pristine' = [pristine EXCEPT ![vaultName] = Reset(pulled, commit)]
                       /\ IF fault = "info" THEN fail("info_failed")
                          ELSE IF ~meta[vaultName].exists \/ fault = "metadata"
                          THEN fail("metadata_failed")
                          ELSE /\ meta' = [meta EXCEPT ![vaultName] =
                                        updateMetadata(@, extractRepoInfo(Reset(pulled, commit)),
                                                       now)]
                               /\ last' = call("ok")

\* a push to the remote's HEAD branch: one more commit
Push(url) ==
    /\ remote[url].tip < MaxTip
    /\ remote' = [remote EXCEPT ![url].tip = @ + 1]
    /\ last' = Call("Push", << >>, "ok")
    /\ UNCHANGED << vaultExists, vault, meta, pristine, cloneDirs, life, addedOk >>

\* a push that makes the branch StaleBranch at the commit of the remote's HEAD
PushBranch(url) ==
    /\ remote[url].stale = 0
    /\ remote' = [remote EXCEPT ![url].stale = remote[url].tip]
    /\ last' = Call("Push", << >>, "ok")
    /\ UNCHANGED << vaultExists, vault, meta, pristine, cloneDirs, life, addedOk >>

\* -------------------------------------------------------------------- bulk
\* InitAll and SyncAll, one step for the load of the index, one for every repository
\* and one for the return, so that the calls of other processes may come in between.
BulkOps == { "InitAll", "SyncAll" }

\* the entries of vault.json; a missing vault.json is an error here
loadAllReposFromVault == IF vaultExists THEN Ok(vault) ELSE Err("failed to read vault file")

\* what a process in InitAll or SyncAll holds: repos, the names of the entries it
\* loaded; queue, the names the loop has yet to come to; errors, the names whose
\* operation returned an error; done (history), the names the loop has called
Bulk(op, entries) ==
    [op |-> op, repos |-> [i \in 1..Len(entries) |-> entries[i].name],
     queue |-> [i \in 1..Len(entries) |-> entries[i].name], errors |-> << >>, done |-> << >>]

\* InitAll / SyncAll up to the loop
BulkStart(p, op) ==
    LET repos == loadAllReposFromVault
    IN  /\ procs[p] = Idle
        /\ IF ~repos.ok
           THEN /\ last' = Call(op, << >>, "vault_unreadable")
                /\ UNCHANGED procs
           ELSE /\ last' = Call(op, << >>, "loaded")
                /\ procs' = [procs EXCEPT ![p] = Bulk(op, repos.val)]
        /\ UNCHANGED << vaultExists, vault, meta, pristine, cloneDirs, remote, life, addedOk >>

\* variant of BulkRest: the loop ends at the first error
BulkRestToFirstError(queue, failed) == IF failed THEN << >> ELSE Tail(queue)

\* the names the loop has yet to come to once it has called the first of queue
BulkRest(queue, failed) == Tail(queue)

\* variant of BulkErrors: the error of the repository is dropped
BulkErrorsDropped(errors, name, failed) == errors

\* errors, once the operation on name has returned
BulkErrors(errors, name, failed) == IF failed THEN Append(errors, name) ELSE errors

\* one turn of the loop: Init or Sync of the next repository
BulkStep(p, now, fault) ==
    LET b == procs[p]
        name == Head(b.queue)
        failed == last'.res # "ok"
    IN  /\ b.op \in BulkOps
        /\ b.queue # << >>
        /\ IF b.op = "InitAll" THEN PristineInit(name, fault) ELSE Sync(name, now, fault)
        /\ procs' = [procs EXCEPT ![p] =
                        [b EXCEPT !.queue = BulkRest(b.queue, failed),
                                  !.errors = BulkErrors(b.errors, name, failed),
                                  !.done = Append(b.done, name)]]

\* variant of BulkResult: nil, whatever the loop has noted
BulkResultNil(errors) == "ok"

\* what InitAll / SyncAll return after the loop: nil, or one error that lists errors
BulkResult(errors) == IF Len(errors) > 0 THEN "some_failed" ELSE "ok"

\* InitAll / SyncAll after the loop
BulkReturn(p) ==
    LET b == procs[p]
    IN  /\ b.op \in BulkOps
        /\ b.queue = << >>
        /\ last' = Call(b.op, << >>, BulkResult(b.errors))
        /\ procs' = [procs EXCEPT ![p] = Idle]
        /\ UNCHANGED << vaultExists, vault, meta, pristine, cloneDirs, remote, life, addedOk >>

\* ------------------------------------------------------------- interleaving
\* Add and Sync as the steps of a process between which the calls of another process
\* may read and write the same files: Add at its read of vault.json, its write of
\* vault.json and its write of metadata.json; Sync at its fetch and at the rest.

\* Add up to the test of the name: vault.json is read into the memory of the process
AddLoad(p, in) ==
    LET v == validateURLOrPath(in)
        n == extractRepoName(v.val)
        entries == loadVault
    IN  /\ procs[p] = Idle
        /\ IF ~v.ok THEN last' = Call("Add", << >>, "validation_failed") /\ UNCHANGED procs
           ELSE IF ~n.ok THEN last' = Call("Add", << >>, "name_failed") /\ UNCHANGED procs
           ELSE IF repoExists(entries, n.val)
           THEN last' = Call("Add", n.val, "already_exists") /\ UNCHANGED procs
           ELSE /\ last' = Call("Add", n.val, "loaded")
                /\ procs' = [procs EXCEPT ![p] =
                                [op |-> "Add", pc |-> "save", name |-> n.val, url |-> v.val,
                                 entries |-> entries]]
        /\ UNCHANGED << vaultExists, vault, meta, pristine, cloneDirs, remote, life, addedOk >>

\* saveVault: the entries the process read, with the new one, are written over vault.json
AddSave(p, fault) ==
    LET a == procs[p]
    IN  /\ a.op = "Add" /\ a.pc = "save"
        /\ IF fault = "save"
           THEN /\ last' = Call("Add", a.name, "save_failed")
                /\ procs' = [procs EXCEPT ![p] = Idle]
                /\ UNCHANGED << vaultExists, vault >>
           ELSE /\ vault' = Append(a.entries, [name |-> a.name, url |-> a.url])
                /\ vaultExists' = TRUE
                /\ last' = Call("Add", a.name, "saved")
                /\ procs' = [procs EXCEPT ![p].pc = "metadata"]
        /\ UNCHANGED << meta, pristine, cloneDirs, remote, life, addedOk >>

\* createMetadata, and the return of Add
AddCreate(p, fault) ==
    LET a == procs[p]
    IN  /\ a.op = "Add" /\ a.pc = "metadata"
        /\ procs' = [procs EXCEPT ![p] = Idle]
        /\ IF fault = "metadata"
           THEN /\ last' = Call("Add", a.name, "metadata_failed")
                /\ UNCHANGED << meta, addedOk >>
           ELSE /\ meta' = [meta EXCEPT ![a.name] = createMetadata(a.url)]
                /\ addedOk' = [addedOk EXCEPT ![a.name] = a.url]
                /\ last' = Call("Add", a.name, "ok")
        /\ UNCHANGED << vaultExists, vault, pristine, cloneDirs, remote, life >>

\* Sync up to the end of worktree.Pull
SyncFetch(p, vaultName, fault) ==
    LET pr == pristine[vaultName]
        fail(res) == /\ last' = Call("Sync", vaultName, res)
                     /\ UNCHANGED << pristine, procs >>
    IN  /\ procs[p] = Idle
        /\ IF SyncPristineMissing(vaultName) THEN fail("does_not_exist")
           ELSE IF pr.dir # "repo" THEN fail("open_failed")
           ELSE IF fault = "pull" THEN fail("pull_failed")
           ELSE /\ pristine' = [pristine EXCEPT ![vaultName] = Pull(pr, Origin(vaultName))]
                /\ last' = Call("Sync", vaultName, "fetched")
                /\ procs' = [procs EXCEPT ![p] = [op |-> "Sync", name |-> vaultName]]
        /\ UNCHANGED << vaultExists, vault, meta, cloneDirs, remote, life, addedOk >>

\* Sync from hardResetToOrigin to its return
SyncFinish(p, now, fault) ==
    LET vaultName == procs[p].name
        pr == pristine[vaultName]
        url == Origin(vaultName)
        call(res) == [Call("Sync", vaultName, res) EXCEPT !.time = now]
        fail(res) == last' = call(res) /\ UNCHANGED meta
    IN  /\ procs[p].op = "Sync"
        /\ procs' = [procs EXCEPT ![p] = Idle]
        /\ UNCHANGED << vaultExists, vault, cloneDirs, remote, life, addedOk >>
        /\ IF fault = "reset" \/ pr.dir # "repo"
           THEN fail("reset_failed") /\ UNCHANGED pristine
           ELSE IF DefaultBranchRefs(url) = {}
           THEN fail("no_default_branch") /\ UNCHANGED pristine
           ELSE \E commit \in DefaultBranchRefs(url) :
                  IF commit < pr.base
                  THEN fail("reset_failed") /\ UNCHANGED pristine
                  ELSE /\ pristine' = [pristine EXCEPT ![vaultName] = Reset(pr, commit)]
                       /\ IF fault = "info" THEN fail("info_failed")
                          ELSE IF ~meta[vaultName].exists \/ fault = "metadata"
                          THEN fail("metadata_failed")
                          ELSE /\ meta' = [meta EXCEPT ![vaultName] =
                                              updateMetadata(@, extractRepoInfo(Reset(pr, commit)),
                                                             now)]
                               /\ last' = call("ok")

\* ------------------------------------------------------------------- clone
\* what the user may hand to `repoman clone` as the clone name (<< >>: none)
CloneArgs == { << >>, << "lib" >> }

\* variant of pristineExists: the directory is not looked for
pristineExistsAlways(pristineName) == TRUE

\* os.Stat of the pristine directory finds it
pristineExists(pristineName) == pristine[pristineName].dir # "absent"

\* <pristine>-clone-<timestamp>; the timestamp is time.Now() to the second
generateCloneName(pristineName, timestamp) == pristineName \o << "-clone-", timestamp >>

\* variant of cloneExists: no directory is found
cloneExistsNever(cloneName) == FALSE

cloneExists(cloneName) == cloneName \in cloneDirs

\* the directories under the clones root after os.MkdirAll / os.RemoveAll of one
MkdirAll(dirs, cloneName) == dirs \cup { cloneName }

\* variant of RemoveAll: the directory stays
RemoveAllKeeps(dirs, cloneName) == dirs

\* the path of the name "" is the clones root itself
RemoveAll(dirs, cloneName) == IF cloneName = << >> THEN {} ELSE dirs \ { cloneName }

\* the name Clone gives the clone
CloneNameOf(pristineName, cloneName, timestamp) ==
    IF cloneName = << >> THEN generateCloneName(pristineName, timestamp) ELSE cloneName

\* git.PlainClone from the pristine directory finds a repository there
cloneRepository(pristineName, gitOk) == pristine[pristineName].dir = "repo" /\ gitOk

CloneRecord(cloneName) == [name |-> cloneName]

\* variant of addCloneToMetadata: the record is put first
addCloneToMetadataFirst(m, cloneName) ==
    [m EXCEPT !.clones = << CloneRecord(cloneName) >> \o m.clones]

\* the metadata.json addCloneToMetadata writes
addCloneToMetadata(m, cloneName) ==
    [m EXCEPT !.clones = Append(m.clones, CloneRecord(cloneName))]

\* the metadata.json lists a clone of the name
Lists(m, cloneName) == m.exists /\ \E i \in 1..Len(m.clones) : m.clones[i].name = cloneName

\* some metadata.json lists a clone of the name
Listed(cloneName) == \E n \in AllNames : Lists(meta[n], cloneName)

RECURSIVE SumRecords(_)
SumRecords(names) ==
    IF names = {} THEN 0
    ELSE LET n == CHOOSE x \in names : TRUE
         IN  Len(meta[n].clones) + SumRecords(names \ { n })

\* the number of clone records in all metadata.json
TotalRecords == SumRecords(AllNames)

\* Clone(pristineName, cloneName); timestamp: the time the call reads; fault:
\* os.MkdirAll, the git clone or the write of metadata.json fails
Clone(pristineName, cloneName, timestamp, fault) ==
    LET mkdirOk == fault # "mkdir"
        gitOk == fault # "clone"
        metaOk == fault # "metadata"
        c == CloneNameOf(pristineName, cloneName, timestamp)
        made == MkdirAll(cloneDirs, c)
        call(res) == [Call("Clone", pristineName, res) EXCEPT !.clone = c]
        fail(res) ==
            /\ last' = call(res)
            /\ UNCHANGED << meta, cloneDirs >>
        \* an error after the directory was made: the directory is removed again
        undo(res) ==
            /\ last' = call(res)
            /\ cloneDirs' = RemoveAll(made, c)
            /\ UNCHANGED meta
    IN  /\ UNCHANGED << vaultExists, vault, pristine, remote, life, addedOk >>
        /\ IF ~pristineExists(pristineName)
           THEN /\ last' = [Call("Clone", pristineName, "pristine_missing") EXCEPT
                               !.clone = cloneName]
                /\ UNCHANGED << meta, cloneDirs >>
           ELSE IF cloneExists(c) THEN fail("already_exists")
           ELSE /\ TotalRecords < MaxRecords
                /\ IF ~mkdirOk THEN fail("mkdir_failed")
                   \* the process is killed once the directory is made: nothing is undone
                   ELSE IF fault = "crash"
                   THEN /\ last' = call("crashed")
                        /\ cloneDirs' = made
                        /\ UNCHANGED meta
                   ELSE IF ~cloneRepository(pristineName, gitOk) THEN undo("clone_failed")
                   ELSE IF ~meta[pristineName].exists \/ ~metaOk THEN undo("metadata_failed")
                   ELSE /\ cloneDirs' = made
                        /\ meta' = [meta EXCEPT ![pristineName] =
                                        addCloneToMetadata(meta[pristineName], c)]
                        /\ last' = call("ok")

\* the errors Clone returns after it has made the clone directory
CloneLateErrors == { "clone_failed", "metadata_failed" }

\* ----------------------------------------------------------------- destroy
\* the first repository, in directory order, whose metadata lists the clone
FirstHolder(cloneName) ==
    LET idx == { i \in 1..Len(SortedNames) :
                    SortedNames[i] \in AllNames /\ Lists(meta[SortedNames[i]], cloneName) }
    IN  IF idx = {} THEN << >>
        ELSE SortedNames[CHOOSE i \in idx : \A j \in idx : i <= j]

WithoutClone(clones, cloneName) == SelectSeq(clones, LAMBDA r : r.name # cloneName)

\* variant of removeCloneFromMetadata: the whole clone list is dropped
removeCloneFromMetadataAll(m, cloneName) == [m EXCEPT !.clones = << >>]

\* the metadata.json removeCloneFromMetadata writes
removeCloneFromMetadata(m, cloneName) ==
    [m EXCEPT !.clones = WithoutClone(m.clones, cloneName)]

\* variant of destroyClone: a failed metadata update is returned as an error
destroyCloneStrict(cloneName, fault) ==
    /\ UNCHANGED << pristine, life, meta >>
    /\ cloneDirs' = RemoveAll(cloneDirs, cloneName)
    /\ last' = [Call("Destroy", << >>, "metadata_failed") EXCEPT
                    !.clone = cloneName, !.kind = "clone"]

\* destroyClone(cloneName); fault: os.RemoveAll fails, no metadata.json can be read, or
\* the write of metadata.json fails
destroyClone(cloneName, fault) ==
    LET rmOk == fault # "remove"
        metaOk == fault # "metadata"
        \* a metadata.json that cannot be read is passed over
        holder == IF fault = "read" THEN << >> ELSE FirstHolder(cloneName)
        call(res, warn) ==
            [Call("Destroy", << >>, res) EXCEPT
                !.clone = cloneName, !.kind = "clone", !.warn = warn]
    IN  /\ UNCHANGED pristine
        /\ UNCHANGED life
        /\ IF ~rmOk
           THEN /\ last' = call("remove_failed", FALSE)
                /\ UNCHANGED << cloneDirs, meta >>
           ELSE /\ cloneDirs' = RemoveAll(cloneDirs, cloneName)
                /\ IF holder = << >> \/ ~metaOk
                   THEN /\ last' = call("ok", TRUE)
                        /\ UNCHANGED meta
                   ELSE /\ meta' = [meta EXCEPT ![holder] =
                                        removeCloneFromMetadata(meta[holder], cloneName)]
                        /\ last' = call("ok", FALSE)

\* variant of destroyPristine: success is returned and the directory stays
destroyPristineKeepsDir(pristineName, fault) ==
    /\ UNCHANGED << cloneDirs, meta, pristine >>
    /\ life' = [life EXCEPT ![pristineName] = "destroyed"]
    /\ last' = [Call("Destroy", pristineName, "ok") EXCEPT
                    !.clone = pristineName, !.kind = "pristine"]

\* variant of destroyPristine: the clone directories go with the pristine
destroyPristineAndClones(pristineName, fault) ==
    /\ cloneDirs' = {}
    /\ pristine' = [pristine EXCEPT ![pristineName] = NoPristine]
    /\ life' = [life EXCEPT ![pristineName] = "destroyed"]
    /\ last' = [Call("Destroy", pristineName, "ok") EXCEPT
                    !.clone = pristineName, !.kind = "pristine"]
    /\ UNCHANGED meta

\* destroyPristine(pristineName); fault: os.RemoveAll fails
destroyPristine(pristineName, fault) ==
    LET rmOk == fault # "remove"
        call(res) ==
            [Call("Destroy", pristineName, res) EXCEPT
                !.clone = pristineName, !.kind = "pristine"]
    IN  /\ UNCHANGED << cloneDirs, meta >>
        /\ IF ~rmOk
           THEN /\ last' = call("remove_failed")
                /\ UNCHANGED << pristine, life >>
           ELSE /\ pristine' = [pristine EXCEPT ![pristineName] = NoPristine]
                /\ life' = [life EXCEPT ![pristineName] = "destroyed"]
                /\ last' = call("ok")

\* os.Stat of <clones root>/<target> finds it; the path of the target "" is the clones
\* root, which main makes before every command
cloneStat(target) == target = << >> \/ target \in cloneDirs

\* os.Stat of <pristines root>/<target> finds it
pristineStat(target) == target \in AllNames /\ pristine[target].dir # "absent"

\* Destroy(target): a clone first, a pristine second
Destroy(target, fault) ==
    /\ UNCHANGED << vaultExists, vault, remote, addedOk >>
    /\ IF cloneStat(target) THEN destroyClone(target, fault)
       ELSE IF pristineStat(target) THEN destroyPristine(target, fault)
       ELSE /\ last' = [Call("Destroy", << >>, "not_found") EXCEPT !.clone = target]
            /\ UNCHANGED << cloneDirs, meta, pristine, life >>

\* ----------------------------------------------------------------- orphans
\* List: the clone names of every metadata.json that can be read
ListNames(readOk) ==
    UNION { { meta[n].clones[i].name : i \in 1..Len(meta[n].clones) } :
               n \in { m \in AllNames : meta[m].exists /\ readOk } }

\* DetectOrphanedClones: the directories under the clones root that List does not name
DetectOrphanedClones(readOk) == { d \in cloneDirs : d \notin ListNames(readOk) }

\* CleanupOrphanedClones(); fault: no metadata.json can be read
CleanupOrphanedClones(fault) ==
    LET orphaned == DetectOrphanedClones(fault # "read")
    IN  /\ cloneDirs' = cloneDirs \ orphaned
        /\ last' = [Call("Cleanup", << >>, "ok") EXCEPT !.warn = orphaned # {}]
        /\ UNCHANGED << vaultExists, vault, meta, pristine, remote, life, addedOk >>

\* what the user may hand to `repoman destroy`
DestroyTargets == AllNames \cup cloneDirs \cup CloneArgs

Next ==
    \/ \E in \in AddInputs, fault \in AddFaults : Add(in, fault) /\ UNCHANGED solo
    \/ \E n \in AllNames, fault \in InitFaults : PristineInit(n, fault) /\ UNCHANGED solo
    \/ \E p \in AllNames, c \in CloneArgs, ts \in 1..MaxStamp, fault \in CloneFaults :
          Clone(p, c, ts, fault) /\ UNCHANGED solo
    \/ \E t \in DestroyTargets, fault \in DestroyFaults : Destroy(t, fault) /\ UNCHANGED solo

Spec == Init /\ [][Next]_vars

\* The clone directories against the metadata: the calls above where every write of
\* vault.json and every Init succeeds, a Clone that may be killed, and
\* CleanupOrphanedClones.
NextOrphans ==
    \/ \E in \in { UrlHttpsRepo, UrlHttpsLib } : Add(in, "none") /\ UNCHANGED solo
    \/ \E n \in AllNames : PristineInit(n, "none") /\ UNCHANGED solo
    \/ \E p \in AllNames, c \in CloneArgs, ts \in 1..MaxStamp,
          fault \in CloneFaults \cup CloneCrash : Clone(p, c, ts, fault) /\ UNCHANGED solo
    \/ \E t \in DestroyTargets, fault \in DestroyFaults : Destroy(t, fault) /\ UNCHANGED solo
    \/ \E fault \in CleanupFaults : CleanupOrphanedClones(fault) /\ UNCHANGED solo

SpecOrphans == Init /\ [][NextOrphans]_vars

NextSync ==
    \/ \E in \in { UrlHttpsRepo, UrlHttpsLib } : Add(in, "none") /\ UNCHANGED solo
    \/ \E n \in AllNames, fault \in { "none", "clone" } :
          PristineInit(n, fault) /\ UNCHANGED solo
    \/ \E n \in AllNames : Destroy(n, "none") /\ UNCHANGED solo
    \/ \E n \in AllNames, now \in SyncStamps, fault \in SyncFaults :
          Sync(n, now, fault) /\ UNCHANGED solo
    \/ \E u \in ValidURLs : Push(u) /\ UNCHANGED solo
    \/ \E u \in ValidURLs : PushBranch(u) /\ UNCHANGED solo

SpecSync == Init /\ [][NextSync]_vars

\* The bulk operations of one process, among the single calls of others.
NextBulk ==
    \/ \E in \in { UrlHttpsRepo, UrlHttpsLib } : Add(in, "none") /\ UNCHANGED solo
    \/ \E n \in AllNames : PristineInit(n, "none") /\ UNCHANGED solo
    \/ \E n \in AllNames : Destroy(n, "none") /\ UNCHANGED solo
    \/ \E op \in BulkOps : BulkStart(1, op) /\ UNCHANGED apart
    \/ \E now \in 1..MaxStamp, fault \in { "none", "clone", "pull" } :
          BulkStep(1, now, fault) /\ UNCHANGED apart
    \/ BulkReturn(1) /\ UNCHANGED apart

SpecBulk == Init /\ [][NextBulk]_vars

\* Two processes in Add and Sync at the same time.
NextRace ==
    \/ \E p \in Procs, in \in { UrlHttpsRepo, UrlHttpsLib } : AddLoad(p, in) /\ UNCHANGED apart
    \/ \E p \in Procs, fault \in { "none", "save" } : AddSave(p, fault) /\ UNCHANGED apart
    \/ \E p \in Procs, fault \in { "none", "metadata" } : AddCreate(p, fault) /\ UNCHANGED apart
    \/ \E n \in AllNames : PristineInit(n, "none") /\ UNCHANGED solo
    \/ \E p \in Procs, n \in AllNames, fault \in { "none", "pull" } :
          SyncFetch(p, n, fault) /\ UNCHANGED apart
    \/ \E p \in Procs, now \in 1..MaxStamp, fault \in { "none", "reset", "metadata" } :
          SyncFinish(p, now, fault) /\ UNCHANGED apart

SpecRace == Init /\ [][NextRace]_vars

\* The names and the URLs Add stores: Add of every input, and Add from a working
\* directory.
NextNames ==
    \/ \E in \in NameInputs, fault \in AddFaults : Add(in, fault) /\ UNCHANGED solo
    \/ \E wd \in WorkDirs, fault \in AddFaults : AddFromCurrentDir(wd, fault) /\ UNCHANGED solo

SpecNames == Init /\ [][NextNames]_vars

\* ------------------------------------------------------------------ claims
\* the name is in the vault index
InIndex(name) == vaultExists /\ \E i \in 1..Len(vault) : vault[i].name = name

\* C1: no two entries of the persisted vault index have the same name, and for every
\* name whose Add returned success Get returns the entry with that name and the URL
\* that Add stored.
C1_UniqueNamesAndGet ==
    /\ \A i, j \in 1..Len(loadVault) : loadVault[i].name = loadVault[j].name => i = j
    /\ \A r \in AllNames :
          addedOk[r] # NoURL => Get(r) = Ok([name |-> r, url |-> addedOk[r]])

\* two repositories were added with success and a third Add was turned down
C1_Witness ==
    /\ Len(loadVault) = 2
    /\ \A r \in AllNames : addedOk[r] # NoURL
    /\ last.op = "Add" /\ last.res = "already_exists"

\* C2: an Add of an input whose derived name is already in the vault index returns
\* 'already exists' and leaves vault.json and every metadata.json as they were.
C2_AddExistingName ==
    [][(last'.op = "Add" /\ last'.name # << >> /\ InIndex(last'.name))
       => (last'.res = "already_exists" /\ UNCHANGED << vaultExists, vault, meta >>)]_vars

\* Add was turned down for a name whose metadata Init had already filled in
C2_Witness ==
    /\ last.op = "Add" /\ last.res = "already_exists"
    /\ meta[last.name].exists /\ meta[last.name].lastSync.kind = "manual"

\* C3, as stated: Init of a name that is not in the vault index returns 'not found',
\* Init of a name whose pristine directory is present returns 'already exists', and
\* neither makes a pristine directory or changes a metadata.json.
C3_AsStated ==
    [][last'.op = "Init" =>
          /\ ~InIndex(last'.name) =>
                (last'.res = "not_found" /\ UNCHANGED << pristine, meta >>)
          /\ pristine[last'.name].dir # "absent" =>
                (last'.res = "already_exists" /\ UNCHANGED << pristine, meta >>)]_vars

\* C3: Init of a name that is not in the vault index returns an error ('not found'
\* when vault.json exists, 'failed to read vault file' when it does not), Init of a
\* name whose pristine directory is present returns 'already exists', and neither
\* makes a pristine directory or changes a metadata.json.
C3_InitRejected ==
    [][last'.op = "Init" =>
          /\ ~InIndex(last'.name) =>
                /\ last'.res = IF vaultExists THEN "not_found" ELSE "vault_unreadable"
                /\ UNCHANGED << pristine, meta >>
          /\ pristine[last'.name].dir # "absent" =>
                (last'.res = "already_exists" /\ UNCHANGED << pristine, meta >>)]_vars

\* Init was turned down for a name the index does not hold, next to a repository
\* that has its pristine
C3_Witness ==
    /\ last.op = "Init" /\ last.res = "not_found"
    /\ \E n \in AllNames : pristine[n].dir = "repo"

\* C4, as stated: Clone returns success only for a vault entry whose Init has
\* succeeded and whose pristine was not destroyed since.
C4_CloneOnlyAfterInit ==
    (last.op = "Clone" /\ last.res = "ok") =>
        (InIndex(last.name) /\ life[last.name] = "inited")

\* C5: Clone of a name that has no pristine directory returns 'does not exist' and
\* makes neither a clone directory nor a clone record.
C5_CloneWithoutPristine ==
    [][(last'.op = "Clone" /\ pristine[last'.name].dir = "absent")
       => (last'.res = "pristine_missing" /\ UNCHANGED << cloneDirs, meta >>)]_vars

\* Clone was turned down for a repository of the vault that has no pristine
C5_Witness ==
    /\ last.op = "Clone" /\ last.res = "pristine_missing"
    /\ InIndex(last.name) /\ meta[last.name].exists

\* the name a Clone call worked with is the one it was handed or the one it generated
CloneNamed(call) ==
    \/ call.clone \in CloneArgs \ { << >> }
    \/ \E ts \in 1..MaxStamp : call.clone = generateCloneName(call.name, ts)

\* C6, as stated: Clone with a supplied or generated name that exists under the
\* clones root returns 'already exists' and leaves the directories and every
\* metadata.json as they were.
C6_AsStated ==
    [][(last'.op = "Clone" /\ last'.clone \in cloneDirs)
       => (last'.res = "already_exists" /\ UNCHANGED << cloneDirs, meta >>)]_vars

\* C6: Clone with a supplied or generated name that exists under the clones root
\* returns 'already exists' when the pristine directory exists ('does not exist' when
\* it does not), and leaves the directories and every metadata.json as they were.
C6_CloneExistingName ==
    [][(last'.op = "Clone" /\ last'.clone \in cloneDirs)
       => /\ last'.res = IF pristine[last'.name].dir = "absent" THEN "pristine_missing"
                         ELSE "already_exists"
          /\ UNCHANGED << cloneDirs, meta >>]_vars

\* Clone was turned down for the name it generated, which a clone directory has
C6_Witness ==
    /\ last.op = "Clone" /\ last.res = "already_exists"
    /\ \E ts \in 1..MaxStamp : last.clone = generateCloneName(last.name, ts)
    /\ last.clone \in cloneDirs

\* C7: a Clone that returns success appends one record with the clone's name at the
\* end of the pristine's clone list, keeps the records before it in their order and
\* leaves every other repository's metadata.json as it was.
C7_CloneAppendsRecord ==
    [][(last'.op = "Clone" /\ last'.res = "ok")
       => /\ CloneNamed(last')
          /\ meta'[last'.name] =
                [meta[last'.name] EXCEPT !.clones = Append(@, [name |-> last'.clone])]
          /\ \A n \in AllNames \ { last'.name } : meta'[n] = meta[n]]_vars

\* Clone added a second record to a list, next to another repository's metadata
C7_Witness ==
    /\ last.op = "Clone" /\ last.res = "ok"
    /\ Len(meta[last.name].clones) = 2
    /\ meta[last.name].clones[1] # meta[last.name].clones[2]
    /\ \E n \in AllNames \ { last.name } : meta[n].exists

\* C8, as stated: after a Clone that returns an error once it has made the clone
\* directory, the directory does not exist and no metadata.json lists the clone.
C8_AsStated ==
    (last.op = "Clone" /\ last.res \in CloneLateErrors)
    => (last.clone \notin cloneDirs /\ ~Listed(last.clone))

\* C8: after a Clone that returns an error once it has made the clone directory, the
\* directory does not exist and every metadata.json is as it was before the call.
C8_FailedCloneRemoved ==
    [][(last'.op = "Clone" /\ last'.res \in CloneLateErrors)
       => (last'.clone \notin cloneDirs' /\ UNCHANGED << cloneDirs, meta >>)]_vars

\* Clone failed after it made the directory of a name that has no directory now and
\* whose record, which an earlier destroy left behind, is still listed
C8_Witness ==
    /\ last.op = "Clone" /\ last.res \in CloneLateErrors
    /\ last.clone \notin cloneDirs
    /\ Listed(last.clone)

\* C9, as stated: after an Init that returns an error once it has made the pristine
\* directory, no pristine directory of the name exists.
C9_FailedInitRemoved ==
    (last.op = "Init" /\ last.res \in InitLateErrors) => pristine[last.name].dir = "absent"

C12_CloneFirstPristineSecond ==
    [][last'.op = "Destroy" =>
          /\ last'.clone \in cloneDirs =>
                /\ cloneDirs' \subseteq cloneDirs
                /\ cloneDirs \ cloneDirs' \subseteq { last'.clone }
                /\ UNCHANGED pristine
          /\ (last'.clone \notin cloneDirs /\ pristineStat(last'.clone)) =>
                /\ UNCHANGED << cloneDirs, meta >>
                /\ last'.res = "ok" =>
                      pristine' = [pristine EXCEPT ![last'.clone] = NoPristine]
          /\ (last'.clone \notin cloneDirs /\ ~pristineStat(last'.clone)) =>
                /\ last'.res = "not_found"
                /\ UNCHANGED << vaultExists, vault, meta, pristine, cloneDirs >>]_vars

\* the repositories whose metadata.json lists a clone of the name
Holders(cloneName) == { n \in AllNames : Lists(meta[n], cloneName) }

C14_MetadataFailureWarns ==
    [][(/\ last'.op = "Destroy" /\ last'.kind = "clone"
        /\ last'.clone \in cloneDirs /\ last'.clone \notin cloneDirs'
        /\ (Holders(last'.clone) = {} \/ meta' = meta))
       => (last'.res = "ok" /\ last'.warn /\ UNCHANGED meta)]_vars

\* Destroy returned success with a warning: the directory is gone and the record of
\* the clone is still listed
C14_Witness ==
    /\ last.op = "Destroy" /\ last.kind = "clone" /\ last.res = "ok" /\ last.warn
    /\ last.clone # << >> /\ last.clone \notin cloneDirs /\ Listed(last.clone)

\* C15, as stated: when a Destroy of a clone has removed the directory and failed to
\* update the metadata, which agreed with the directories but for that clone's record,
\* a CleanupOrphanedClones that comes next leaves the clone names that the
\* metadata.json list equal to the directories under the clones root.
C15_CleanupReconciles ==
    [][(/\ last.op = "Destroy" /\ last.kind = "clone" /\ last.res = "ok" /\ last.warn
        /\ last.clone \notin cloneDirs
        /\ ListNames(TRUE) = cloneDirs \cup { last.clone }
        /\ last'.op = "Cleanup")
       => ListNames(TRUE)' = cloneDirs']_vars

\* C16, as stated: CleanupOrphanedClones removes the directories under the clones root
\* that no metadata.json lists, and leaves every listed directory and every
\* metadata.json as they were.
C16_CleanupRemovesOrphans ==
    [][last'.op = "Cleanup"
       => /\ cloneDirs' = { d \in cloneDirs : Listed(d) }
          /\ UNCHANGED << vaultExists, vault, meta, pristine >>]_vars

\* C17: a Sync of a name that has no pristine directory returns 'does not exist' and
\* changes no metadata.json and no directory.
C17_SyncWithoutPristine ==
    [][(last'.op = "Sync" /\ pristine[last'.name].dir = "absent")
       => /\ last'.res = "does_not_exist"
          /\ UNCHANGED << vaultExists, vault, meta, pristine, cloneDirs >>]_vars

\* Sync was turned down for a name whose pristine Destroy had removed
C17_Witness ==
    /\ last.op = "Sync" /\ last.res = "does_not_exist"
    /\ life[last.name] = "destroyed" /\ meta[last.name].lastSync.kind = "manual"

\* C18: after a Sync that returns success the tip of the pristine is the tip of the
\* remote's HEAD branch, whatever that branch is called.
C18_SyncMatchesRemote ==
    [][(last'.op = "Sync" /\ last'.res = "ok")
       => pristine'[last'.name].tip = remote[Origin(last'.name)].tip]_vars

\* C19: the second of two successful Syncs of a pristine, with no push to the remote in
\* between, leaves the tip of the pristine and the hash and the default branch in the
\* metadata as the first left them.
C19_SyncIdempotent ==
    [][(/\ last.op = "Sync" /\ last.res = "ok"
        /\ last'.op = "Sync" /\ last'.res = "ok" /\ last'.name = last.name)
       => /\ pristine'[last.name].tip = pristine[last.name].tip
          /\ meta'[last.name].hash = meta[last.name].hash
          /\ meta'[last.name].defaultBranch = meta[last.name].defaultBranch]_vars

\* C20: a Sync that returns success sets last_sync of the name to its time, with kind
\* "manual"; a Sync that returns an error leaves every metadata.json as it was.
C20_LastSyncOnSuccess ==
    [][last'.op = "Sync"
       => IF last'.res = "ok"
          THEN meta'[last'.name].lastSync = [time |-> last'.time, kind |-> "manual"]
          ELSE UNCHANGED meta]_vars

\* a Sync failed once the pristine was opened, at another time than the successful Sync
\* that last_sync records
C20_Witness ==
    /\ last.op = "Sync" /\ last.res \in { "reset_failed", "info_failed", "metadata_failed" }
    /\ last.time = 1
    /\ meta[last.name].lastSync = [time |-> 2, kind |-> "manual"]

\* the process is in the loop of InitAll / SyncAll and takes a turn of it in the step
BulkTurn(p) == procs[p].op \in BulkOps /\ procs'[p] # procs[p] /\ procs'[p] # Idle

\* the process returns from the loop of InitAll / SyncAll in the step
BulkReturns(p) == procs[p].op \in BulkOps /\ procs'[p] = Idle

\* C21: InitAll / SyncAll call the operation once for every repository of the index
\* they loaded, in its order, also for those that come after one that failed: every
\* turn of the loop calls the next repository, and at the return all were called.
C21_BulkAttemptsAll ==
    [][\A p \in Procs :
          /\ BulkTurn(p) => /\ last'.op = IF procs[p].op = "InitAll" THEN "Init" ELSE "Sync"
                            /\ last'.name = procs[p].repos[Len(procs[p].done) + 1]
                            /\ procs'[p].done = Append(procs[p].done, last'.name)
          /\ BulkReturns(p) => procs[p].done = procs[p].repos]_vars

\* the loop has called both repositories of the index: the first failed, the second
\* succeeded
C21_Witness ==
    \E p \in Procs :
        /\ procs[p].op \in BulkOps /\ procs[p].queue = << >>
        /\ Len(procs[p].done) = 2 /\ procs[p].errors = << procs[p].done[1] >>
        /\ last.res = "ok"

C23_AsStated ==
    [][(last'.op \in BulkOps /\ last'.res # "loaded")
       => (last'.res # "ok" <=> \E p \in Procs : BulkReturns(p) /\ procs[p].errors # << >>)]_vars

\* C23: InitAll / SyncAll return an error if and only if vault.json cannot be read or
\* the operation of at least one repository failed; the error after the loop lists the
\* repositories whose operation failed and no other.
C23_ErrorIffFailed ==
    [][/\ (last'.op \in BulkOps /\ last'.res # "loaded")
            => \/ last'.res = "vault_unreadable" /\ ~vaultExists /\ UNCHANGED procs
               \/ \E p \in Procs :
                     /\ BulkReturns(p)
                     /\ last'.res = IF procs[p].errors = << >> THEN "ok" ELSE "some_failed"
       /\ \A p \in Procs :
             BulkTurn(p)
                => procs'[p].errors = IF last'.res = "ok" THEN procs[p].errors
                                      ELSE Append(procs[p].errors, last'.name)]_vars

\* SyncAll has returned nil: it had synced both repositories of the index
C23_Witness ==
    /\ last.op = "SyncAll" /\ last.res = "ok"
    /\ Len(vault) = 2
    /\ \A n \in AllNames : pristine[n].dir = "repo"

\* C24: in every state every entry of the vault index has a metadata.json, and no call
\* deletes a metadata.json.
C24_MetadataBoundToEntry ==
    /\ [](\A i \in 1..Len(loadVault) : meta[loadVault[i].name].exists)
    /\ [][\A n \in AllNames : meta[n].exists => meta'[n].exists]_vars

\* C25: a Clone of a repository under the name a Clone of another repository has just
\* been given is not turned down as 'already exists', and when it returns success the
\* clones root holds one directory more.
C25_CloneNamesScoped ==
    [][(/\ last.op = "Clone" /\ last.res = "ok"
        /\ last'.op = "Clone" /\ last'.name # last.name /\ last'.clone = last.clone
        /\ pristine[last'.name].dir # "absent")
       => /\ last'.res # "already_exists"
          /\ last'.res = "ok" => Cardinality(cloneDirs') = Cardinality(cloneDirs) + 1]_vars

\* C26: no name is at the same time the name of a clone directory and the name of a
\* pristine directory.
C26_NamespacesDisjoint ==
    \A n \in AllNames : ~(n \in cloneDirs /\ pristine[n].dir # "absent")

\* C27: two processes are never in a Sync of the same pristine at the same time, the
\* one between its fetch and its write of metadata.json while the other is.
C27_SyncsExcluded ==
    \A p, q \in Procs :
        (p # q /\ procs[p].op = "Sync" /\ procs[q].op = "Sync") => procs[p].name # procs[q].name

\* C28: every Add that has returned success, also one that ran while an Add of another
\* name did, has its entry in the vault index and its metadata.json.
C28_ConcurrentAddsBothStored ==
    \A n \in AllNames : addedOk[n] # NoURL => InIndex(n) /\ meta[n].exists

\* the path of a URL: what follows the host, which ends at the first "/" after the
\* scheme of an http(s) URL and at the ":" of a git@ URL
UrlPath(url) ==
    LET rest == IF HasPrefix(url, GitAtPrefix) THEN SubSeq(url, Len(GitAtPrefix) + 1, Len(url))
                ELSE IF HasPrefix(url, HttpsPrefix)
                THEN SubSeq(url, Len(HttpsPrefix) + 1, Len(url))
                ELSE SubSeq(url, Len(HttpPrefix) + 1, Len(url))
        sep == IF HasPrefix(url, GitAtPrefix) THEN ":" ELSE "/"
    IN  IF Contains(rest, sep)
        THEN LET i == CHOOSE k \in 1..Len(rest) :
                          rest[k] = sep /\ \A j \in 1..(k - 1) : rest[j] # sep
             IN  SubSeq(rest, i + 1, Len(rest))
        ELSE << >>

\* the last segment of a path that is not empty, << >> when it has none
LastSegment(path) ==
    LET segs == { x \in { Split(path, "/")[i] : i \in 1..Len(Split(path, "/")) } : x # << >> }
        q == StripSlashes(path)
    IN  IF segs = {} THEN << >> ELSE Split(q, "/")[Len(Split(q, "/"))]

\* the name the vault is to store for an input: the last segment of the URL's path
\* without the trailing .git, the last segment of a local path
NameOfInput(urlOrPath) ==
    IF IsURL(urlOrPath) THEN LastSegment(TrimSuffix(UrlPath(urlOrPath), DotGit))
    ELSE LastSegment(urlOrPath)

\* C29: the name of every entry of the vault index is the last path segment of the URL
\* stored with it, without a trailing .git, or the last segment of the stored path.
C29_NameIsLastSegment ==
    \A i \in 1..Len(loadVault) : loadVault[i].name = NameOfInput(loadVault[i].url)

\* the remote `repoman add` is to take in a working directory: the one the current
\* branch tracks, else remote.pushDefault, else "origin", else the first by name (the
\* names of WorkDirs, in lexical order)
DefaultRemote(wd) ==
    LET named(n) == CHOOSE r \in wd.remotes : r.name = n
        has(n) == n # "" /\ \E r \in wd.remotes : r.name = n
        order == << "fork", "mirror", "origin", "upstream" >>
    IN  IF has(wd.tracked) THEN named(wd.tracked)
        ELSE IF has(wd.pushDefault) THEN named(wd.pushDefault)
        ELSE IF has("origin") THEN named("origin")
        ELSE named(order[CHOOSE i \in 1..Len(order) :
                             has(order[i]) /\ \A j \in 1..(i - 1) : ~has(order[j])])

\* C30: Add from a working directory that is a git repository with at least one remote
\* is an Add of the URL of the default remote (tracked, else push default, else origin,
\* else first by name): it is not turned down for want of a remote named origin.
C30_DefaultRemoteOrder ==
    [][\A wd \in WorkDirs :
          (AddFromCurrentDir(wd, "none") /\ wd.git /\ wd.remotes # {})
             => Add(DefaultRemote(wd).url, "none")]_vars

\* ---------------------------------------------------------------------------------
\* Credential negotiation. The callbacks live in operations/init.rs, operations/sync.rs
\* and operations/credentials, which are described, not shown, by the repository's
\* notes: each network operation declares an attempt counter before its callbacks; the
\* engine invokes the callback, which counts the invocation and either gives up with
\* an authentication failure or offers a credential; a remote that rejects the
\* credential makes the engine invoke the callback again.

\* the fixed maximum of the credential provider
MaxAttempts == 3

NetKinds == { "clone", "fetch", "list" }

\* the operations whose attempt counter the callback of operation p counts in
CounterOwnersShared(p) == Procs
CounterOwners(p) == { p }

\* a network operation p starts: its counter is declared, no callback has run
NetStart(p, kind) ==
    /\ procs[p].op = "idle"
    /\ procs' = [procs EXCEPT ![p] = [op |-> "net", kind |-> kind, counter |-> 0,
                                      calls |-> 0, offered |-> 0, res |-> ""]]
    /\ UNCHANGED << vaultExists, vault, meta, pristine, cloneDirs, remote, last, life,
                    addedOk >>

\* the counter of operation q after the callback of operation p has counted
Counted(p, q) ==
    IF q \in CounterOwners(p) /\ procs[q].op = "net" THEN procs[q].counter + 1
    ELSE procs[q].counter

\* one invocation of the credential callback of operation p against a remote that
\* rejects every credential: count; over the maximum, fail; else offer a credential,
\* which the remote rejects
CredentialCallback(p) ==
    /\ procs[p].op = "net"
    /\ procs' = [q \in Procs |->
                   IF procs[q].op # "net" THEN procs[q]
                   ELSE IF q # p THEN [procs[q] EXCEPT !.counter = Counted(p, q)]
                   ELSE IF Counted(p, p) > MaxAttempts
                        THEN [procs[p] EXCEPT !.op = "net_done",
                                              !.counter = Counted(p, p),
                                              !.calls = @ + 1,
                                              !.res = "AuthenticationFailed"]
                        ELSE [procs[p] EXCEPT !.counter = Counted(p, p),
                                              !.calls = @ + 1,
                                              !.offered = @ + 1]]
    /\ UNCHANGED << vaultExists, vault, meta, pristine, cloneDirs, remote, last, life,
                    addedOk >>

\* the operation returns its error to the caller
NetReturn(p) ==
    /\ procs[p].op = "net_done"
    /\ procs' = [procs EXCEPT ![p] = Idle]
    /\ UNCHANGED << vaultExists, vault, meta, pristine, cloneDirs, remote, last, life,
                    addedOk >>

NextAuth ==
    \/ \E p \in Procs, kind \in NetKinds : NetStart(p, kind) /\ UNCHANGED apart
    \/ \E p \in Procs : CredentialCallback(p) /\ UNCHANGED apart
    \/ \E p \in Procs : NetReturn(p) /\ UNCHANGED apart

SpecAuth == Init /\ [][NextAuth]_vars

AliasNames == { << "rm" >>, << "lib" >> }

IsAlias(name) == \E a \in aliases : a.alias = name

\* the repository a name given to a command is for: the name itself when it is in the
\* index, else the repository the alias of that name points at
Resolve(name) ==
    IF InIndex(name) \/ ~IsAlias(name) THEN name
    ELSE (CHOOSE a \in aliases : a.alias = name).name

\* a name that an entry of the index or an alias has
NameTaken(name) == InIndex(name) \/ IsAlias(name)

\* repoman alias <name> <alias>
CreateAlias(name, alias) ==
    /\ UNCHANGED << vaultExists, vault, meta, pristine, cloneDirs, remote, life, addedOk,
                    procs, clock >>
    /\ IF ~InIndex(name)
       THEN last' = [Call("Alias", name, "not_found") EXCEPT !.clone = alias]
            /\ UNCHANGED aliases
       ELSE IF NameTaken(alias)
       THEN last' = [Call("Alias", name, "naming_conflict") EXCEPT !.clone = alias]
            /\ UNCHANGED aliases
       ELSE last' = [Call("Alias", name, "ok") EXCEPT !.clone = alias]
            /\ aliases' = aliases \cup { [alias |-> alias, name |-> name] }

\* repoman alias <name> <alias> --remove
RemoveAlias(name, alias) ==
    /\ UNCHANGED << vaultExists, vault, meta, pristine, cloneDirs, remote, life, addedOk,
                    procs, clock >>
    /\ IF [alias |-> alias, name |-> name] \notin aliases
       THEN last' = [Call("Unalias", name, "not_found") EXCEPT !.clone = alias]
            /\ UNCHANGED aliases
       ELSE last' = [Call("Unalias", name, "ok") EXCEPT !.clone = alias]
            /\ aliases' = aliases \ { [alias |-> alias, name |-> name] }

\* the names of the clones a metadata.json lists
ClonesOf(m) == { m.clones[i].name : i \in 1..Len(m.clones) }

\* variant of remove_aliases_for: the alias table is left as it is
remove_aliases_for_none(name) == aliases

\* Vault::remove_aliases_for: the alias table without the aliases of the name
remove_aliases_for(name) == { a \in aliases : a.name # name }

\* repoman remove <name>: the clones, the pristine, the metadata, the aliases and the
\* vault entry of the repository go. The call record keeps the clone records that were
\* removed and whether a pristine was.
Remove(name) ==
    LET n == Resolve(name)
    IN  /\ UNCHANGED << vaultExists, remote, procs, clock >>
        /\ IF ~InIndex(n)
           THEN /\ last' = Call("Remove", name, "not_found")
                /\ UNCHANGED << vault, meta, pristine, cloneDirs, life, addedOk, aliases >>
           ELSE /\ cloneDirs' = cloneDirs \ ClonesOf(meta[n])
                /\ pristine' = [pristine EXCEPT ![n] = NoPristine]
                /\ meta' = [meta EXCEPT ![n] = NoMeta]
                /\ aliases' = remove_aliases_for(n)
                /\ vault' = SelectSeq(vault, LAMBDA e : e.name # n)
                /\ life' = [life EXCEPT ![n] = "none"]
                /\ addedOk' = [addedOk EXCEPT ![n] = NoURL]
                /\ last' = [Call("Remove", n, "ok") EXCEPT
                               !.clone = meta[n].clones,
                               !.kind = IF pristine[n].dir = "absent" THEN "" ELSE "pristine"]

\* what the user may hand to `repoman remove`
RemoveTargets == AllNames \cup { << "rm" >> }

\* Repositories with aliases, pristines and clones, and their removal.
NextAlias ==
    \/ \E in \in { UrlHttpsRepo, UrlHttpsLib } : Add(in, "none") /\ UNCHANGED solo
    \/ \E n \in AllNames : PristineInit(n, "none") /\ UNCHANGED solo
    \/ \E p \in AllNames, c \in CloneArgs, ts \in 1..MaxStamp :
          Clone(p, c, ts, "none") /\ UNCHANGED solo
    \/ \E n \in AllNames, a \in AliasNames : CreateAlias(n, a)
    \/ \E n \in AllNames, a \in AliasNames : RemoveAlias(n, a)
    \/ \E t \in RemoveTargets : Remove(t)

SpecAlias == Init /\ [][NextAlias]_vars

\* C32: no alias has the name of an entry of the vault index, and no two aliases have
\* the same name; a `repoman alias` for a name that an entry or an alias has is turned
\* down as a naming conflict and leaves the alias table as it was.
C32_AliasNamesUnique ==
    /\ \A a \in aliases : ~InIndex(a.alias)
    /\ \A a, b \in aliases : a.alias = b.alias => a = b
    /\ (last.op = "Alias" /\ last.res = "ok")
          => [alias |-> last.clone, name |-> last.name] \in aliases

MaxClock == 3

\* "1h", the sync_interval createMetadata writes, in the unit of the clock
SyncInterval == 1

\* the time the next sync of the repository is due
Due(vaultName) == meta[vaultName].lastSync.time + SyncInterval

\* an hour passes
Tick ==
    /\ clock < MaxClock
    /\ clock' = clock + 1
    /\ UNCHANGED << vaultExists, vault, meta, pristine, cloneDirs, remote, last, life,
                    addedOk, procs, aliases >>

\* repoman agent start
AgentStart ==
    /\ last' = Call("AgentStart", << >>, "ok")
    /\ UNCHANGED << vaultExists, vault, meta, pristine, cloneDirs, remote, life, addedOk,
                    procs, aliases, clock >>

\* The commands of one user and the passing of time; Init and Sync stamp last_sync
\* with the time of the clock (the stamps of Init end at MaxStamp).
NextAgent ==
    \/ \E in \in { UrlHttpsRepo, UrlHttpsLib } : Add(in, "none") /\ UNCHANGED solo
    \/ \E n \in AllNames :
          /\ PristineInit(n, "none") /\ UNCHANGED solo
          /\ last'.res = "ok" => meta'[n].lastSync.time = clock
    \/ \E n \in AllNames, fault \in { "none", "pull" } : Sync(n, clock, fault) /\ UNCHANGED solo
    \/ AgentStart
    \/ Tick

SpecAgent == Init /\ [][NextAgent]_vars

\* C34: from `repoman agent start` on, the agent wakes at the earliest due time and
\* syncs the repositories that are due: the clock does not pass the due time
\* (last_sync time + sync_interval) of a repository of the index that has a pristine
\* while its last_sync stays as it is, and the sync of a due repository is of kind auto.
C34_AgentSyncsDue ==
    [][\A n \in AllNames :
          (/\ last.op = "AgentStart"
           /\ InIndex(n) /\ pristine[n].dir = "repo"
           /\ clock = Due(n))
          => /\ clock' = clock
             /\ meta'[n].lastSync # meta[n].lastSync
                   => meta'[n].lastSync = [time |-> clock, kind |-> "auto"]]_vars

\* ---------------------------------------------------------------------------------
\* The calls of one user, one after the other, with the failures that are no failed
\* write of a file: a remote or a repository that git turns down, and a metadata.json
\* that cannot be read.
NextStore ==
    \/ \E in \in { UrlHttpsRepo, UrlHttpsLib } : Add(in, "none") /\ UNCHANGED solo
    \/ \E n \in AllNames, fault \in { "none", "clone", "info" } :
          PristineInit(n, fault) /\ UNCHANGED solo
    \/ \E n \in AllNames, now \in 1..MaxStamp, fault \in { "none", "pull" } :
          Sync(n, now, fault) /\ UNCHANGED solo
    \/ \E p \in AllNames, c \in CloneArgs, ts \in 1..MaxStamp, fault \in { "none", "clone" } :
          Clone(p, c, ts, fault) /\ UNCHANGED solo
    \/ \E t \in DestroyTargets, fault \in { "none", "read" } :
          Destroy(t, fault) /\ UNCHANGED solo
    \/ \E fault \in CleanupFaults : CleanupOrphanedClones(fault) /\ UNCHANGED solo

SpecStore == Init /\ [][NextStore]_vars

\* C35: a directory of a name is under the clones root exactly when one metadata.json,
\* and no more than one, lists a clone of the name; and no metadata.json lists a clone
\* name twice.
C35_DirsAndMetadataAgree ==
    /\ \A c \in cloneDirs \cup ListNames(TRUE) :
          c \in cloneDirs <=> Cardinality(Holders(c)) = 1
    /\ \A n \in AllNames : \A i, j \in 1..Len(meta[n].clones) :
          meta[n].clones[i].name = meta[n].clones[j].name => i = j

\* ---------------------------------------------------------------------------------
\* Init, Sync, Clone and Destroy of a clone at the grain of the reads and writes of
\* metadata.json: each call reads the file, changes what it read in memory and writes
\* that back. These are the calls that get to their read; the outcomes that return
\* before it are those of PristineInit, Sync, Clone and Destroy above.

\* Init or Sync of process p up to os.ReadFile in updateMetadata
PristineRead(p, op, vaultName) ==
    LET pr == pristine[vaultName]
        repo == loadRepoFromVault(vaultName)
        enter(newp) ==
            /\ pristine' = [pristine EXCEPT ![vaultName] = newp]
            /\ procs' = [procs EXCEPT ![p] =
                            [op |-> op, name |-> vaultName, clone |-> << >>,
                             read |-> meta[vaultName], info |-> extractRepoInfo(newp)]]
    IN  /\ procs[p] = Idle
        /\ meta[vaultName].exists
        /\ IF op = "Init"
           THEN /\ repo.ok /\ pr.dir = "absent"
                /\ enter(cloneAsReference(repo.val.url, TRUE))
           ELSE /\ ~SyncPristineMissing(vaultName) /\ pr.dir = "repo"
                /\ \E commit \in DefaultBranchRefs(Origin(vaultName)) :
                      /\ commit >= pr.base
                      /\ enter(Reset(Pull(pr, Origin(vaultName)), commit))
        /\ UNCHANGED << vaultExists, vault, meta, cloneDirs, remote, last, life, addedOk >>

\* Clone of process p up to loadMetadata in addCloneToMetadata
CloneRead(p, pristineName, cloneName, timestamp) ==
    LET c == CloneNameOf(pristineName, cloneName, timestamp)
    IN  /\ procs[p] = Idle
        /\ pristineExists(pristineName) /\ ~cloneExists(c)
        /\ TotalRecords < MaxRecords
        /\ cloneRepository(pristineName, TRUE)
        /\ meta[pristineName].exists
        /\ cloneDirs' = MkdirAll(cloneDirs, c)
        /\ procs' = [procs EXCEPT ![p] =
                        [op |-> "Clone", name |-> pristineName, clone |-> c,
                         read |-> meta[pristineName], info |-> << >>]]
        /\ UNCHANGED << vaultExists, vault, meta, pristine, remote, last, life, addedOk >>

\* Destroy of the clone of a name, by process p, up to the loadMetadata of
\* removeCloneFromMetadata that finds the record
DestroyRead(p, cloneName) ==
    LET holder == FirstHolder(cloneName)
    IN  /\ procs[p] = Idle
        /\ cloneName \in cloneDirs
        /\ holder # << >>
        /\ cloneDirs' = RemoveAll(cloneDirs, cloneName)
        /\ procs' = [procs EXCEPT ![p] =
                        [op |-> "Destroy", name |-> holder, clone |-> cloneName,
                         read |-> meta[holder], info |-> << >>]]
        /\ UNCHANGED << vaultExists, vault, meta, pristine, remote, last, life, addedOk >>

\* the write of metadata.json that ends the call of process p, and its return
MetaWrite(p, now) ==
    LET c == procs[p]
        written ==
            IF c.op \in { "Init", "Sync" } THEN updateMetadata(c.read, c.info, now)
            ELSE IF c.op = "Clone" THEN addCloneToMetadata(c.read, c.clone)
            ELSE removeCloneFromMetadata(c.read, c.clone)
    IN  /\ c.op \in { "Init", "Sync", "Clone", "Destroy" }
        /\ "read" \in DOMAIN c
        /\ meta' = [meta EXCEPT ![c.name] = written]
        /\ life' = IF c.op = "Init" THEN [life EXCEPT ![c.name] = "inited"] ELSE life
        /\ last' = [Call(c.op, IF c.op = "Destroy" THEN << >> ELSE c.name, "ok") EXCEPT
                       !.clone = c.clone,
                       !.kind = IF c.op = "Destroy" THEN "clone" ELSE "",
                       !.time = IF c.op = "Sync" THEN now ELSE 0]
        /\ procs' = [procs EXCEPT ![p] = Idle]
        /\ UNCHANGED << vaultExists, vault, pristine, cloneDirs, remote, addedOk >>

\* Two processes in Init, Sync, Clone and Destroy of one repository at the same time.
NextMeta ==
    \/ Add(UrlHttpsRepo, "none") /\ UNCHANGED solo
    \/ \E p \in Procs, op \in { "Init", "Sync" }, n \in AllNames :
          PristineRead(p, op, n) /\ UNCHANGED apart
    \/ \E p \in Procs, n \in AllNames, c \in CloneArgs, ts \in 1..MaxStamp :
          CloneRead(p, n, c, ts) /\ UNCHANGED apart
    \/ \E p \in Procs, c \in cloneDirs : DestroyRead(p, c) /\ UNCHANGED apart
    \/ \E p \in Procs, now \in SyncStamps : MetaWrite(p, now) /\ UNCHANGED apart

SpecMeta == Init /\ [][NextMeta]_vars

\* C36: no write of a metadata.json undoes what another call wrote since the writer
\* read the file: the write that ends an Init or a Sync leaves the clone list as the
\* file has it, and the write that ends a Clone or a Destroy of a clone leaves
\* last_sync, the commit hash and the default branch as the file has them; so when
\* both calls have returned success the file holds both changes.
C36_NoLostUpdate ==
    [][\A n \in AllNames :
          (meta[n].exists /\ meta'[n] # meta[n])
             => \/ /\ last'.op \in { "Init", "Sync" }
                   /\ meta'[n].clones = meta[n].clones
                \/ /\ last'.op \in { "Clone", "Destroy" }
                   /\ meta'[n].lastSync = meta[n].lastSync
                   /\ meta'[n].hash = meta[n].hash
                   /\ meta'[n].defaultBranch = meta[n].defaultBranch]_vars

\* ---------------------------------------------------------------------------------
\* CleanupOrphanedClones in two steps: DetectOrphanedClones, then the removals.

\* CleanupOrphanedClones of process p up to the return of DetectOrphanedClones
CleanupDetect(p) ==
    /\ procs[p] = Idle
    /\ procs' = [procs EXCEPT ![p] =
                    [op |-> "Cleanup", orphaned |-> DetectOrphanedClones(TRUE)]]
    /\ UNCHANGED << vaultExists, vault, meta, pristine, cloneDirs, remote, last, life,
                    addedOk >>

\* the os.RemoveAll of every directory DetectOrphanedClones returned, and the return
CleanupRemove(p) ==
    /\ procs[p].op = "Cleanup"
    /\ cloneDirs' = cloneDirs \ procs[p].orphaned
    /\ last' = [Call("Cleanup", << >>, "ok") EXCEPT !.warn = procs[p].orphaned # {}]
    /\ procs' = [procs EXCEPT ![p] = Idle]
    /\ UNCHANGED << vaultExists, vault, meta, pristine, remote, life, addedOk >>

\* Clone in process 1 and CleanupOrphanedClones in process 2 at the same time.
NextCleanup ==
    \/ \E in \in { UrlHttpsRepo, UrlHttpsLib } : Add(in, "none") /\ UNCHANGED solo
    \/ \E n \in AllNames : PristineInit(n, "none") /\ UNCHANGED solo
    \/ \E n \in AllNames, c \in CloneArgs, ts \in 1..MaxStamp :
          CloneRead(1, n, c, ts) /\ UNCHANGED apart
    \/ \E now \in 1..MaxStamp : MetaWrite(1, now) /\ UNCHANGED apart
    \/ CleanupDetect(2) /\ UNCHANGED apart
    \/ CleanupRemove(2) /\ UNCHANGED apart

SpecCleanup == Init /\ [][NextCleanup]_vars

\* C37: when no call is under way, the directories under the clones root are the
\* clones that the metadata.json list: a CleanupOrphanedClones that ran along with a
\* Clone that returned success has not removed that clone's directory.
C37_CleanupKeepsNewClone ==
    (\A p \in Procs : procs[p] = Idle) => cloneDirs = ListNames(TRUE)

\* C38: CleanupOrphanedClones leaves every clone directory that a metadata.json lists
\* (the record a Clone that returned success wrote and no Destroy took out), whether or
\* not the metadata.json can be read when it runs.
C38_CleanupKeepsListed ==
    [][last'.op = "Cleanup" => \A d \in cloneDirs : Listed(d) => d \in cloneDirs']_vars

====
